---------------------------- MODULE Spec2Model ----------------------------
(***************************************************************************)
(* A model of dace/graph/nxutil.py: the depth-first topological ordering,  *)
(* the depth-limited search and enumeration, the edge redirection          *)
(* primitives, the subgraph replacement and the map merge.                 *)
(*                                                                         *)
(* The ordered multigraph (dace.graph.graph) that nxutil.py mutates is not *)
(* part of the sources at hand.  It is modelled from its contract: a       *)
(* sequence of nodes and a sequence of edges, both in insertion order,     *)
(* edges being records (src, src_conn, dst, dst_conn, data).               *)
(***************************************************************************)
EXTENDS Integers, Sequences, FiniteSets, TLC

(***************************************************************************)
(* Bounds of the model.                                                    *)
(***************************************************************************)
\* dfs_topological_sort: nodes of G, edges of G, length of a sources list.
NumTopoNodes == 3
MaxTopoEdges == 3
MaxSources == 2
\* dfs_topological_sort: pairs (parent, child) the condition is false for.
MaxRejects == 2
\* depth_limited_search / depth_limited_dfs_iter: nodes of the search space,
\* the depth argument, the values evaluate() returns.
NumSearchNodes == 3
MaxDepth == 2
MaxValue == 1
\* replace_subgraph: edges of graph, edges of old and of new.
MaxGraphEdges == 3
MaxSubEdges == 2
\* merge_maps: edges of the graph.
MaxMergeEdges == 6
\* change_edge_dest / change_edge_src: edges of the graph.
MaxRedirectEdges == 3

(***************************************************************************)
(* The ordered multigraph.                                                 *)
(***************************************************************************)
\* Connector names are strings, modelled as sequences of characters; an edge
\* without connector names has None.
NoConn == <<"None">>
NoData == 0

SeqToSet(s) == {s[i] : i \in 1..Len(s)}

\* A connector edge (gr.MultiConnectorEdge) and a plain edge (gr.Edge).
MultiConnectorEdge(s, sc, d, dc, data) ==
    [src |-> s, src_conn |-> sc, dst |-> d, dst_conn |-> dc, data |-> data,
     multi |-> TRUE]

PlainEdge(s, d, data) ==
    [src |-> s, src_conn |-> NoConn, dst |-> d, dst_conn |-> NoConn,
     data |-> data, multi |-> FALSE]

EmptyGraph == [nodes |-> <<>>, edges |-> <<>>]

NodeSet(g) == SeqToSet(g.nodes)

EdgeSet(g) == SeqToSet(g.edges)

\* The number of edges of g equal to e (parallel edges are kept apart).
EdgeCount(g, e) == Cardinality({i \in 1..Len(g.edges) : g.edges[i] = e})

AddNode(g, n) ==
    IF n \in NodeSet(g) THEN g ELSE [g EXCEPT !.nodes = Append(@, n)]

RECURSIVE AddNodesFrom(_, _)
AddNodesFrom(g, ns) ==
    IF ns = <<>> THEN g ELSE AddNodesFrom(AddNode(g, Head(ns)), Tail(ns))

\* add_edge inserts missing endpoints and appends the edge.
AddEdge(g, e) ==
    [AddNode(AddNode(g, e.src), e.dst) EXCEPT !.edges = Append(@, e)]

RECURSIVE AddEdgesFrom(_, _)
AddEdgesFrom(g, es) ==
    IF es = <<>> THEN g ELSE AddEdgesFrom(AddEdge(g, Head(es)), Tail(es))

RECURSIVE RemoveFirst(_, _)
RemoveFirst(s, x) ==
    IF s = <<>> THEN <<>>
    ELSE IF Head(s) = x THEN Tail(s)
    ELSE <<Head(s)>> \o RemoveFirst(Tail(s), x)

HasEdge(g, e) == e \in EdgeSet(g)

RemoveEdge(g, e) == [g EXCEPT !.edges = RemoveFirst(@, e)]

\* remove_node removes the node and every edge incident to it.
RemoveNode(g, n) ==
    [nodes |-> SelectSeq(g.nodes, LAMBDA m : m # n),
     edges |-> SelectSeq(g.edges, LAMBDA e : e.src # n /\ e.dst # n)]

RECURSIVE RemoveNodesFrom(_, _)
RemoveNodesFrom(g, ns) ==
    IF ns = <<>> THEN g
    ELSE RemoveNodesFrom(RemoveNode(g, Head(ns)), Tail(ns))

InEdges(g, n) == SelectSeq(g.edges, LAMBDA e : e.dst = n)

OutEdges(g, n) == SelectSeq(g.edges, LAMBDA e : e.src = n)

EdgesBetween(g, a, b) == SelectSeq(g.edges, LAMBDA e : e.src = a /\ e.dst = b)

InDegree(g, n) == Len(InEdges(g, n))

OutDegree(g, n) == Len(OutEdges(g, n))

\* neighbors(n): the successors of n, in out-edge order.
Neighbors(g, n) == [i \in 1..Len(OutEdges(g, n)) |-> OutEdges(g, n)[i].dst]

Predecessors(g, n) == {e.src : e \in {x \in EdgeSet(g) : x.dst = n}}

(***************************************************************************)
(* State.                                                                  *)
(***************************************************************************)
VARIABLES
    \* node_path_graph(*args)
    args,           \* the arguments G was built from, <<>> if it was not
    \* dfs_topological_sort(G, sources, condition)
    G,              \* the graph
    sources,        \* [given |-> FALSE] for None, else the list of start nodes
    condition,      \* [given |-> FALSE] for None, else the pairs it rejects
    tpc,            \* position of the generator: "for", "while", "done"
    idx,            \* position of `for start in nodes`
    visited,        \* the visited set
    stack,          \* frames [node, pos]: pos is the children iterator
    out,            \* the nodes yielded so far
    prev            \* what an earlier run on the same arguments yielded

VARIABLES
    \* depth_limited_search(source, depth), depth_limited_dfs_iter(source, depth)
    fn,             \* which of the two runs: "search" or "iter"
    children_iter,  \* node -> the list children_iter() produces
    val,            \* node -> what evaluate() returns
    source,         \* the source argument
    depth,          \* the depth argument
    spc,            \* "start", "loop", "done"
    sstack,         \* frames [node, cur_depth, pos]
    candidate,      \* [node, value]: candidate and candidate_value
    evals,          \* node -> number of evaluate() calls on it
    expanded,       \* node -> number of children_iter() calls on it
    ret,            \* the returned [node, value]
    yielded         \* the nodes the generator has produced

topoVars == <<args, G, sources, condition, tpc, idx, visited, stack, out, prev>>

VARIABLES
    \* replace_subgraph(graph, old, new)
    graph,          \* the graph being rewritten
    old,            \* the subgraph to replace
    new,            \* the replacement
    rpc,            \* "check", "add", "redirect_in", "redirect_out", "remove",
                    \* "returned"
    result,         \* "None" until the call returns, then "True" or "False"
    old_source, old_sink, new_source, new_sink,
    call,           \* 1: replace_subgraph(graph, old, new); 2: the call back
    entry,          \* graph as it was when the current call was entered
    original        \* graph as it was before the first call

VARIABLES
    \* merge_maps(graph, outer_map_entry, outer_map_exit, inner_map_entry,
    \*            inner_map_exit)
    mgraph,         \* the graph
    mpc,            \* "create", "entry_loop", "exit_loop", "cleanup",
                    \* "returned", "error"
    todo,           \* what is left of the edges_between list being looped over
    inner_edges,    \* inner_in_edges, then inner_out_edges
    merged_map,     \* the map of merged_entry and merged_exit
    moriginal,      \* the graph as it was before the call
    param_merge,    \* the param_merge argument: "default" or "custom"
    range_merge,    \* the range_merge argument: "default" or "custom"
    maps,           \* the Map objects there are, in order of creation
    map_of          \* node -> position in maps of its .map (0: it has none)

VARIABLES
    \* change_edge_dest(graph, node_a, node_b), change_edge_src(graph, node_a,
    \* node_b)
    cfn,            \* which of the two runs: "dest" or "src"
    c_graph,        \* the graph
    c_node_a,       \* node_a
    c_node_b,       \* node_b
    c_edges,        \* what is left of `edges` for the loop
    c_edge,         \* e, between its removal and the insertion of its copy
    cpc,            \* "list", "remove", "add", "done"
    c_entry         \* the graph as it was before the call

searchVars == <<fn, children_iter, val, source, depth, spc, sstack, candidate,
                evals, expanded, ret, yielded>>

replaceVars == <<graph, old, new, rpc, result, old_source, old_sink,
                 new_source, new_sink, call, entry, original>>

mergeVars == <<mgraph, mpc, todo, inner_edges, merged_map, moriginal,
               param_merge, range_merge, maps, map_of>>

redirectVars == <<cfn, c_graph, c_node_a, c_node_b, c_edges, c_edge, cpc,
                  c_entry>>

vars == <<topoVars, searchVars, replaceVars, mergeVars, redirectVars>>

\* What a step of one component leaves alone.
otherThanTopo == <<searchVars, replaceVars, mergeVars, redirectVars>>

otherThanSearch == <<topoVars, replaceVars, mergeVars, redirectVars>>

otherThanReplace == <<topoVars, searchVars, mergeVars, redirectVars>>

otherThanMerge == <<topoVars, searchVars, replaceVars, redirectVars>>

otherThanRedirect == <<topoVars, searchVars, replaceVars, mergeVars>>

\* A component that is not running.
IdleTopo ==
    /\ args = <<>>
    /\ G = EmptyGraph
    /\ sources = [given |-> FALSE, list |-> <<>>]
    /\ condition = [given |-> FALSE, rejects |-> {}]
    /\ tpc = "idle"
    /\ idx = 0
    /\ visited = {}
    /\ stack = <<>>
    /\ out = <<>>
    /\ prev = <<>>

IdleReplace ==
    /\ graph = EmptyGraph
    /\ old = EmptyGraph
    /\ new = EmptyGraph
    /\ rpc = "idle"
    /\ result = "None"
    /\ old_source = 0
    /\ old_sink = 0
    /\ new_source = 0
    /\ new_sink = 0
    /\ call = 0
    /\ entry = EmptyGraph
    /\ original = EmptyGraph

IdleMerge ==
    /\ mgraph = EmptyGraph
    /\ mpc = "idle"
    /\ todo = <<>>
    /\ inner_edges = <<>>
    /\ merged_map = <<>>
    /\ moriginal = EmptyGraph
    /\ param_merge = "idle"
    /\ range_merge = "idle"
    /\ maps = <<>>
    /\ map_of = <<>>

IdleRedirect ==
    /\ cfn = "idle"
    /\ c_graph = EmptyGraph
    /\ c_node_a = 0
    /\ c_node_b = 0
    /\ c_edges = <<>>
    /\ c_edge = <<>>
    /\ cpc = "idle"
    /\ c_entry = EmptyGraph

IdleSearch ==
    /\ fn = "idle"
    /\ children_iter = <<>>
    /\ val = <<>>
    /\ source = 0
    /\ depth = 0
    /\ spc = "idle"
    /\ sstack = <<>>
    /\ candidate = [node |-> 0, value |-> 0]
    /\ evals = <<>>
    /\ expanded = <<>>
    /\ ret = [node |-> 0, value |-> 0]
    /\ yielded = <<>>

(***************************************************************************)
(* dfs_topological_sort                                                    *)
(***************************************************************************)
TopoNodes == 1..NumTopoNodes

TopoPairs == {p \in TopoNodes \X TopoNodes : p[1] # p[2]}

\* Edge lists of a DiGraph: no parallel edges, grouped by source node (the
\* order of the out-edges of each node is free, and is all the walk reads).
TopoEdgeSeqs ==
    {s \in UNION {[1..n -> TopoPairs] : n \in 0..MaxTopoEdges} :
        /\ \A i, j \in 1..Len(s) : i < j => s[i] # s[j]
        /\ \A i, j \in 1..Len(s) : i < j => s[i][1] <= s[j][1]}

TopoGraph(s) ==
    [nodes |-> [i \in 1..NumTopoNodes |-> i],
     edges |-> [i \in 1..Len(s) |-> PlainEdge(s[i][1], s[i][2], NoData)]]

SourceLists == UNION {[1..n -> TopoNodes] : n \in 1..MaxSources}

NoRun == <<0>>

\* `nodes`: G itself when sources is None, else the sources.
StartNodes == IF sources.given THEN sources.list ELSE G.nodes

NoSources == [given |-> FALSE, list |-> <<>>]

NoCondition == [given |-> FALSE, rejects |-> {}]

Condition(parent, child) ==
    (~condition.given) \/ <<parent, child>> \notin condition.rejects

InitTopo ==
    /\ args = <<>>
    /\ G \in {TopoGraph(s) : s \in TopoEdgeSeqs}
    /\ sources \in {NoSources} \cup
                   {[given |-> TRUE, list |-> l] : l \in SourceLists}
    /\ condition = NoCondition
    /\ tpc = "for"
    /\ idx = 1
    /\ visited = {}
    /\ stack = <<>>
    /\ out = <<>>
    /\ prev = NoRun
    /\ IdleSearch
    /\ IdleReplace
    /\ IdleMerge
    /\ IdleRedirect

\* TopoStart with `nodes` iterated as an unordered collection.
TopoStartUnordered ==
    /\ tpc = "for"
    /\ idx <= Len(StartNodes)
    /\ \E k \in 1..Len(StartNodes) :
         LET start == StartNodes[k]
         IN IF start \in visited
            THEN /\ idx' = idx + 1
                 /\ UNCHANGED <<tpc, visited, stack, out>>
            ELSE /\ out' = Append(out, start)
                 /\ visited' = visited \cup {start}
                 /\ stack' = <<[node |-> start, pos |-> 1]>>
                 /\ tpc' = "while"
                 /\ UNCHANGED idx
    /\ UNCHANGED <<args, G, sources, condition, prev>>
    /\ UNCHANGED otherThanTopo

\* TopoStart without `visited.add(start)`.
TopoStartUnmarked ==
    /\ tpc = "for"
    /\ idx <= Len(StartNodes)
    /\ LET start == StartNodes[idx]
       IN IF start \in visited
          THEN /\ idx' = idx + 1
               /\ UNCHANGED <<tpc, visited, stack, out>>
          ELSE /\ out' = Append(out, start)
               /\ stack' = <<[node |-> start, pos |-> 1]>>
               /\ tpc' = "while"
               /\ UNCHANGED <<idx, visited>>
    /\ UNCHANGED <<args, G, sources, condition, prev>>
    /\ UNCHANGED otherThanTopo

\* `for start in nodes`: one iteration up to the start of the while loop.
TopoStart ==
    /\ tpc = "for"
    /\ idx <= Len(StartNodes)
    /\ LET start == StartNodes[idx]
       IN IF start \in visited
          THEN /\ idx' = idx + 1
               /\ UNCHANGED <<tpc, visited, stack, out>>
          ELSE /\ out' = Append(out, start)
               /\ visited' = visited \cup {start}
               /\ stack' = <<[node |-> start, pos |-> 1]>>
               /\ tpc' = "while"
               /\ UNCHANGED idx
    /\ UNCHANGED <<args, G, sources, condition, prev>>
    /\ UNCHANGED otherThanTopo

\* The for loop is exhausted: the generator ends.
TopoFinish ==
    /\ tpc = "for"
    /\ idx > Len(StartNodes)
    /\ tpc' = "done"
    /\ UNCHANGED <<args, G, sources, condition, idx, visited, stack, out,
                   prev>>
    /\ UNCHANGED otherThanTopo

\* The while loop marking a child visited before it looks at the child's
\* predecessors.
TopoStepMarkDeferred ==
    /\ tpc = "while"
    /\ LET top == stack[Len(stack)]
           parent == top.node
           children == Neighbors(G, parent)
       IN IF top.pos > Len(children)
          THEN /\ stack' = SubSeq(stack, 1, Len(stack) - 1)
               /\ IF Len(stack) = 1
                  THEN tpc' = "for" /\ idx' = idx + 1
                  ELSE UNCHANGED <<tpc, idx>>
               /\ UNCHANGED <<visited, out>>
          ELSE LET child == children[top.pos]
                   advanced == [stack EXCEPT ![Len(stack)].pos = top.pos + 1]
                   skip == \E pred \in Predecessors(G, child) :
                               pred \notin visited
               IN /\ UNCHANGED <<tpc, idx>>
                  /\ IF child \in visited
                     THEN /\ stack' = advanced
                          /\ UNCHANGED <<visited, out>>
                     ELSE /\ visited' = visited \cup {child}
                          /\ IF (~skip) /\ Condition(parent, child)
                             THEN /\ out' = Append(out, child)
                                  /\ stack' = Append(advanced,
                                        [node |-> child, pos |-> 1])
                             ELSE /\ stack' = advanced
                                  /\ UNCHANGED out
    /\ UNCHANGED <<args, G, sources, condition, prev>>
    /\ UNCHANGED otherThanTopo

\* The while loop marking a child visited only when the condition holds
\* for it.
TopoStepMarkAccepted ==
    /\ tpc = "while"
    /\ LET top == stack[Len(stack)]
           parent == top.node
           children == Neighbors(G, parent)
       IN IF top.pos > Len(children)
          THEN /\ stack' = SubSeq(stack, 1, Len(stack) - 1)
               /\ IF Len(stack) = 1
                  THEN tpc' = "for" /\ idx' = idx + 1
                  ELSE UNCHANGED <<tpc, idx>>
               /\ UNCHANGED <<visited, out>>
          ELSE LET child == children[top.pos]
                   advanced == [stack EXCEPT ![Len(stack)].pos = top.pos + 1]
                   skip == \E pred \in Predecessors(G, child) :
                               pred \notin visited
               IN /\ UNCHANGED <<tpc, idx>>
                  /\ IF child \in visited \/ skip
                     THEN /\ stack' = advanced
                          /\ UNCHANGED <<visited, out>>
                     ELSE IF Condition(parent, child)
                          THEN /\ visited' = visited \cup {child}
                               /\ out' = Append(out, child)
                               /\ stack' = Append(advanced,
                                     [node |-> child, pos |-> 1])
                          ELSE /\ stack' = advanced
                               /\ UNCHANGED <<visited, out>>
    /\ UNCHANGED <<args, G, sources, condition, prev>>
    /\ UNCHANGED otherThanTopo

\* One iteration of `while stack`.
TopoStep ==
    /\ tpc = "while"
    /\ LET top == stack[Len(stack)]
           parent == top.node
           children == Neighbors(G, parent)
       IN IF top.pos > Len(children)
          THEN \* StopIteration: stack.pop()
               /\ stack' = SubSeq(stack, 1, Len(stack) - 1)
               /\ IF Len(stack) = 1
                  THEN tpc' = "for" /\ idx' = idx + 1
                  ELSE UNCHANGED <<tpc, idx>>
               /\ UNCHANGED <<visited, out>>
          ELSE LET child == children[top.pos]
                   advanced == [stack EXCEPT ![Len(stack)].pos = top.pos + 1]
                   skip == \E pred \in Predecessors(G, child) :
                               pred \notin visited
               IN /\ UNCHANGED <<tpc, idx>>
                  /\ IF child \in visited \/ skip
                     THEN /\ stack' = advanced
                          /\ UNCHANGED <<visited, out>>
                     ELSE /\ visited' = visited \cup {child}
                          /\ IF Condition(parent, child)
                             THEN /\ out' = Append(out, child)
                                  /\ stack' = Append(advanced,
                                        [node |-> child, pos |-> 1])
                             ELSE /\ stack' = advanced
                                  /\ UNCHANGED out
    /\ UNCHANGED <<args, G, sources, condition, prev>>
    /\ UNCHANGED otherThanTopo

\* A second call with the same graph and the same arguments.
TopoAgain ==
    /\ tpc = "done"
    /\ prev = NoRun
    /\ prev' = out
    /\ tpc' = "for"
    /\ idx' = 1
    /\ visited' = {}
    /\ stack' = <<>>
    /\ out' = <<>>
    /\ UNCHANGED <<args, G, sources, condition>>
    /\ UNCHANGED otherThanTopo

NextTopo == TopoStart \/ TopoFinish \/ TopoStep \/ TopoAgain

SpecTopo == InitTopo /\ [][NextTopo]_vars

\* dfs_topological_sort(G): sources and condition left out.
InitTopoWhole ==
    /\ InitTopo
    /\ sources = NoSources

\* The caller runs the generator to its end: a `for` over it, or list().
SpecTopoFair == InitTopoWhole /\ [][NextTopo]_vars /\ WF_vars(NextTopo)

\* The edges of g as pairs (parent, child).
EdgePairs(g) == {<<e.src, e.dst>> : e \in EdgeSet(g)}

\* dfs_topological_sort(G, source, condition) with a single node as
\* sources, or with sources left out: the condition is a predicate on
\* (parent, child), false for up to MaxRejects edges of G.
InitCondition ==
    /\ args = <<>>
    /\ G \in {TopoGraph(s) : s \in TopoEdgeSeqs}
    /\ sources \in {NoSources} \cup
                   {[given |-> TRUE, list |-> <<n>>] : n \in TopoNodes}
    /\ condition \in {[given |-> TRUE, rejects |-> r] :
                         r \in {S \in SUBSET EdgePairs(G) :
                                   Cardinality(S) <= MaxRejects}}
    /\ tpc = "for"
    /\ idx = 1
    /\ visited = {}
    /\ stack = <<>>
    /\ out = <<>>
    /\ prev = NoRun
    /\ IdleSearch
    /\ IdleReplace
    /\ IdleMerge
    /\ IdleRedirect

SpecCondition == InitCondition /\ [][NextTopo]_vars

\* dfs_topological_sort(G), dfs_topological_sort(G, node) and
\* dfs_topological_sort(G, [node, node]) on every graph, with and without
\* cycles; the two nodes of the list may be the same node.
InitSources ==
    /\ InitTopo
    /\ sources \in {NoSources} \cup
                   {[given |-> TRUE, list |-> <<n>>] : n \in TopoNodes} \cup
                   {[given |-> TRUE, list |-> <<n, m>>] :
                        n \in TopoNodes, m \in TopoNodes}

SpecSources == InitSources /\ [][NextTopo]_vars

(***************************************************************************)
(* node_path_graph                                                         *)
(***************************************************************************)
\* An argument of node_path_graph: a node, or a list of nodes.
NodeArg(n) == [is_list |-> FALSE, node |-> n, list |-> <<>>]

ListArg(l) == [is_list |-> TRUE, node |-> 0, list |-> l]

\* input_nodes without the branch for a single list: list(args).
InputNodesOfArgs(a) == [i \in 1..Len(a) |-> a[i].node]

\* Lines 32-37: input_nodes.
InputNodes(a) ==
    IF Len(a) = 1 /\ a[1].is_list THEN a[1].list
    ELSE [i \in 1..Len(a) |-> a[i].node]

RECURSIVE AddPathEdges(_, _, _)
\* Lines 41-42: `for i in range(len(input_nodes) - 1)`, from i on (i counts
\* from 1 here).
AddPathEdges(path, input_nodes, i) ==
    IF i > Len(input_nodes) - 1 THEN path
    ELSE AddPathEdges(
             AddEdge(path, PlainEdge(input_nodes[i], input_nodes[i + 1],
                                     NoData)),
             input_nodes, i + 1)

NodePathGraph(a) ==
    AddPathEdges(AddNodesFrom(EmptyGraph, InputNodes(a)), InputNodes(a), 1)

\* The lists of nodes a caller may pass, and the two ways to pass one.
NodeLists == UNION {[1..n -> TopoNodes] : n \in 1..NumTopoNodes}

ArgLists ==
    {<<ListArg(l)>> : l \in NodeLists} \cup
    {[i \in 1..Len(l) |-> NodeArg(l[i])] : l \in NodeLists}

\* G = node_path_graph(*args), then dfs_topological_sort(G, first node).
InitPath ==
    /\ args \in ArgLists
    /\ G = NodePathGraph(args)
    /\ sources = [given |-> TRUE, list |-> <<InputNodes(args)[1]>>]
    /\ condition = NoCondition
    /\ tpc = "for"
    /\ idx = 1
    /\ visited = {}
    /\ stack = <<>>
    /\ out = <<>>
    /\ prev = NoRun
    /\ IdleSearch
    /\ IdleReplace
    /\ IdleMerge
    /\ IdleRedirect

SpecPath == InitPath /\ [][NextTopo]_vars

(***************************************************************************)
(* depth_limited_search and depth_limited_dfs_iter                         *)
(***************************************************************************)
SearchNodes == 1..NumSearchNodes

Injective(s) == \A i, j \in 1..Len(s) : i # j => s[i] # s[j]

\* What children_iter() of node n may produce: distinct later nodes, in any
\* order (a node may be the child of several nodes).
ChildLists(n) ==
    {s \in UNION {[1..k -> (n + 1)..NumSearchNodes] :
                    k \in 0..(NumSearchNodes - n)} : Injective(s)}

RECURSIVE ChildMaps(_)
\* The search spaces over the nodes 1..n: a list of children for each.
ChildMaps(n) ==
    IF n = 0 THEN {<<>>}
    ELSE {Append(f, l) : f \in ChildMaps(n - 1), l \in ChildLists(n)}

NoResult == [node |-> 0, value |-> 0 - 1]

\* evaluate(): the node's value; the call is counted.
Evaluate(n) == val[n]

\* The comparison taken to be `child_val >= candidate_value`.
BetterOrEqual(child_val, candidate_value) == child_val >= candidate_value

\* `child_val > candidate_value`
Better(child_val, candidate_value) == child_val > candidate_value

\* Descend stopping one level early.
DescendShallow(cur_depth, d) == cur_depth < d - 2

\* `cur_depth < depth - 1`
Descend(cur_depth, d) == cur_depth < d - 1

InitSearch ==
    /\ fn \in {"search", "iter"}
    /\ children_iter \in ChildMaps(NumSearchNodes)
    /\ val \in [SearchNodes -> 0..MaxValue]
    /\ source = 1
    /\ depth \in 0..MaxDepth
    /\ spc = "start"
    /\ sstack = <<>>
    /\ candidate = NoResult
    /\ evals = [n \in SearchNodes |-> 0]
    /\ expanded = [n \in SearchNodes |-> 0]
    /\ ret = NoResult
    /\ yielded = <<>>
    /\ IdleTopo
    /\ IdleReplace
    /\ IdleMerge
    /\ IdleRedirect

\* depth_limited_search with the `depth == 0` return left out.
SearchStartNoShortcut ==
    /\ fn = "search"
    /\ spc = "start"
    /\ evals' = [evals EXCEPT ![source] = @ + 1]
    /\ candidate' = [node |-> source, value |-> Evaluate(source)]
    /\ sstack' = <<[node |-> source, cur_depth |-> 0, pos |-> 1]>>
    /\ expanded' = [expanded EXCEPT ![source] = @ + 1]
    /\ spc' = "loop"
    /\ UNCHANGED <<ret, fn, children_iter, val, source, depth, yielded>>
    /\ UNCHANGED otherThanSearch

\* depth_limited_search up to the while loop.
SearchStart ==
    /\ fn = "search"
    /\ spc = "start"
    /\ evals' = [evals EXCEPT ![source] = @ + 1]
    /\ IF depth = 0
       THEN /\ ret' = [node |-> source, value |-> Evaluate(source)]
            /\ spc' = "done"
            /\ UNCHANGED <<candidate, sstack, expanded>>
       ELSE /\ candidate' = [node |-> source, value |-> Evaluate(source)]
            /\ sstack' = <<[node |-> source, cur_depth |-> 0, pos |-> 1]>>
            /\ expanded' = [expanded EXCEPT ![source] = @ + 1]
            /\ spc' = "loop"
            /\ UNCHANGED ret
    /\ UNCHANGED <<fn, children_iter, val, source, depth, yielded>>
    /\ UNCHANGED otherThanSearch

\* One iteration of `while stack` of depth_limited_search; the return follows
\* the pop that empties the stack.
SearchStep ==
    /\ fn = "search"
    /\ spc = "loop"
    /\ LET top == sstack[Len(sstack)]
           kids == children_iter[top.node]
       IN IF top.pos > Len(kids)
          THEN \* StopIteration: stack.pop()
               /\ sstack' = SubSeq(sstack, 1, Len(sstack) - 1)
               /\ IF Len(sstack) = 1
                  THEN ret' = candidate /\ spc' = "done"
                  ELSE UNCHANGED <<ret, spc>>
               /\ UNCHANGED <<candidate, evals, expanded>>
          ELSE LET child == kids[top.pos]
                   child_val == Evaluate(child)
                   advanced == [sstack EXCEPT ![Len(sstack)].pos = top.pos + 1]
               IN /\ evals' = [evals EXCEPT ![child] = @ + 1]
                  /\ candidate' = IF Better(child_val, candidate.value)
                                  THEN [node |-> child, value |-> child_val]
                                  ELSE candidate
                  /\ IF Descend(top.cur_depth, depth)
                     THEN /\ sstack' = Append(advanced,
                                [node |-> child,
                                 cur_depth |-> top.cur_depth + 1, pos |-> 1])
                          /\ expanded' = [expanded EXCEPT ![child] = @ + 1]
                     ELSE /\ sstack' = advanced
                          /\ UNCHANGED expanded
                  /\ UNCHANGED <<ret, spc>>
    /\ UNCHANGED <<fn, children_iter, val, source, depth, yielded>>
    /\ UNCHANGED otherThanSearch

\* depth_limited_dfs_iter up to the while loop.
IterStart ==
    /\ fn = "iter"
    /\ spc = "start"
    /\ IF depth = 0
       THEN /\ yielded' = Append(yielded, source)
            /\ spc' = "done"
            /\ UNCHANGED <<sstack, expanded>>
       ELSE /\ sstack' = <<[node |-> source, cur_depth |-> 0, pos |-> 1]>>
            /\ expanded' = [expanded EXCEPT ![source] = @ + 1]
            /\ spc' = "loop"
            /\ UNCHANGED yielded
    /\ UNCHANGED <<fn, children_iter, val, source, depth, candidate, evals,
                   ret>>
    /\ UNCHANGED otherThanSearch

\* One iteration of `while stack` of depth_limited_dfs_iter.
IterStep ==
    /\ fn = "iter"
    /\ spc = "loop"
    /\ LET top == sstack[Len(sstack)]
           kids == children_iter[top.node]
       IN IF top.pos > Len(kids)
          THEN \* StopIteration: stack.pop()
               /\ sstack' = SubSeq(sstack, 1, Len(sstack) - 1)
               /\ spc' = IF Len(sstack) = 1 THEN "done" ELSE spc
               /\ UNCHANGED <<yielded, expanded>>
          ELSE LET child == kids[top.pos]
                   advanced == [sstack EXCEPT ![Len(sstack)].pos = top.pos + 1]
               IN /\ yielded' = Append(yielded, child)
                  /\ IF Descend(top.cur_depth, depth)
                     THEN /\ sstack' = Append(advanced,
                                [node |-> child,
                                 cur_depth |-> top.cur_depth + 1, pos |-> 1])
                          /\ expanded' = [expanded EXCEPT ![child] = @ + 1]
                     ELSE /\ sstack' = advanced
                          /\ UNCHANGED expanded
                  /\ UNCHANGED spc
    /\ UNCHANGED <<fn, children_iter, val, source, depth, candidate, evals,
                   ret>>
    /\ UNCHANGED otherThanSearch

NextSearch == SearchStart \/ SearchStep \/ IterStart \/ IterStep

SpecSearch == InitSearch /\ [][NextSearch]_vars

(***************************************************************************)
(* change_edge_dest and change_edge_src                                    *)
(***************************************************************************)
RECURSIVE RedirectDestPlain(_, _, _)
RedirectDestPlain(g, edges, node_b) ==
    IF edges = <<>> THEN g
    ELSE LET e == Head(edges)
         IN RedirectDestPlain(
                AddEdge(RemoveEdge(g, e), PlainEdge(e.src, node_b, e.data)),
                Tail(edges), node_b)

\* change_edge_dest without the connector branch.
ChangeEdgeDestPlain(g, node_a, node_b) ==
    RedirectDestPlain(g, InEdges(g, node_a), node_b)

RECURSIVE RedirectDest(_, _, _)
\* `for e in edges`: remove e, add its copy with destination node_b.
RedirectDest(g, edges, node_b) ==
    IF edges = <<>> THEN g
    ELSE LET e == Head(edges)
             moved == IF e.multi
                      THEN MultiConnectorEdge(e.src, e.src_conn, node_b,
                                              e.dst_conn, e.data)
                      ELSE PlainEdge(e.src, node_b, e.data)
         IN RedirectDest(AddEdge(RemoveEdge(g, e), moved), Tail(edges), node_b)

\* change_edge_dest taking every edge of the graph for an in-edge of node_a.
ChangeEdgeDestAll(g, node_a, node_b) == RedirectDest(g, g.edges, node_b)

ChangeEdgeDest(g, node_a, node_b) ==
    RedirectDest(g, InEdges(g, node_a), node_b)

RECURSIVE RedirectSrcPlain(_, _, _)
RedirectSrcPlain(g, edges, node_b) ==
    IF edges = <<>> THEN g
    ELSE LET e == Head(edges)
         IN RedirectSrcPlain(
                AddEdge(RemoveEdge(g, e), PlainEdge(node_b, e.dst, e.data)),
                Tail(edges), node_b)

\* change_edge_src without the connector branch.
ChangeEdgeSrcPlain(g, node_a, node_b) ==
    RedirectSrcPlain(g, OutEdges(g, node_a), node_b)

RECURSIVE RedirectSrc(_, _, _)
\* `for e in edges`: remove e, add its copy with source node_b.
RedirectSrc(g, edges, node_b) ==
    IF edges = <<>> THEN g
    ELSE LET e == Head(edges)
             moved == IF e.multi
                      THEN MultiConnectorEdge(node_b, e.src_conn, e.dst,
                                              e.dst_conn, e.data)
                      ELSE PlainEdge(node_b, e.dst, e.data)
         IN RedirectSrc(AddEdge(RemoveEdge(g, e), moved), Tail(edges), node_b)

ChangeEdgeSrc(g, node_a, node_b) ==
    RedirectSrc(g, OutEdges(g, node_a), node_b)

(***************************************************************************)
(* find_source_nodes, find_sink_nodes, replace_subgraph                    *)
(***************************************************************************)
FindSourceNodes(g) == SelectSeq(g.nodes, LAMBDA n : InDegree(g, n) = 0)

FindSinkNodes(g) == SelectSeq(g.nodes, LAMBDA n : OutDegree(g, n) = 0)

Digits == <<"0", "1", "2", "3", "4", "5", "6", "7", "8", "9">>

Digit(k) == Digits[k + 1]

InConn(k) == <<"I", "N", "_", Digit(k)>>

OutConn(k) == <<"O", "U", "T", "_", Digit(k)>>

\* The nodes of graph before the call; the sizes of old and of new.
GraphNodes == 1..4

SubSizes == 1..3

\* The nodes of new: not nodes of graph.
FreshNodes(k) == [i \in 1..k |-> Cardinality(GraphNodes) + i]

PairKey(p) == 10 * p[1] + p[2]

RECURSIVE SortedPairs(_)
SortedPairs(S) ==
    IF S = {} THEN <<>>
    ELSE LET m == CHOOSE p \in S : \A q \in S : PairKey(p) <= PairKey(q)
         IN <<m>> \o SortedPairs(S \ {m})

\* The edge a -> b of a connector graph or of a plain graph: every edge has
\* a payload of its own, and connector names that tell its two ends apart.
EdgeOf(multi, p) ==
    IF multi
    THEN MultiConnectorEdge(p[1], OutConn(p[2]), p[2], InConn(p[1]), PairKey(p))
    ELSE PlainEdge(p[1], p[2], PairKey(p))

MakeGraph(multi, nodes, pairs) ==
    [nodes |-> nodes,
     edges |-> [i \in 1..Len(SortedPairs(pairs)) |->
                    EdgeOf(multi, SortedPairs(pairs)[i])]]

GraphPairs == {p \in GraphNodes \X GraphNodes : p[1] # p[2]}

\* The edges a subgraph on the nodes ns may have: from an earlier to a later
\* node, and the one edge back that closes a cycle.
SubPairs(ns) ==
    {<<ns[p[1]], ns[p[2]]>> :
        p \in {q \in (1..Len(ns)) \X (1..Len(ns)) :
                  q[1] < q[2] \/ q = <<2, 1>>}}

InitReplace ==
    /\ \E multi \in BOOLEAN :
         /\ \E gs \in {S \in SUBSET GraphPairs : Cardinality(S) <= MaxGraphEdges} :
              /\ graph = MakeGraph(multi, [i \in GraphNodes |-> i], gs)
              \* old is a subgraph of graph: some of its nodes, some of the
              \* edges between them.
              /\ \E k \in SubSizes :
                   \E ps \in {S \in SUBSET (gs \cap SubPairs([i \in 1..k |-> i])) :
                                 Cardinality(S) <= MaxSubEdges} :
                     old = MakeGraph(multi, [i \in 1..k |-> i], ps)
         /\ \E k \in SubSizes :
              \E ps \in {S \in SUBSET SubPairs(FreshNodes(k)) :
                            Cardinality(S) <= MaxSubEdges} :
                new = MakeGraph(multi, FreshNodes(k), ps)
    /\ rpc = "check"
    /\ result = "None"
    /\ old_source = 0
    /\ old_sink = 0
    /\ new_source = 0
    /\ new_sink = 0
    /\ call = 1
    /\ entry = graph
    /\ original = graph
    /\ IdleTopo
    /\ IdleSearch
    /\ IdleMerge
    /\ IdleRedirect

\* replace_subgraph adding the nodes of new before it has looked at new.
ReplaceCheckLate ==
    /\ rpc = "check"
    /\ IF Len(FindSourceNodes(old)) # 1 \/ Len(FindSinkNodes(old)) # 1
       THEN /\ result' = "False"
            /\ rpc' = "returned"
            /\ UNCHANGED <<graph, old_source, old_sink, new_source, new_sink>>
       ELSE /\ graph' = AddNodesFrom(graph, new.nodes)
            /\ IF Len(FindSourceNodes(new)) # 1 \/ Len(FindSinkNodes(new)) # 1
               THEN /\ result' = "False"
                    /\ rpc' = "returned"
                    /\ UNCHANGED <<old_source, old_sink, new_source, new_sink>>
               ELSE /\ old_source' = FindSourceNodes(old)[1]
                    /\ old_sink' = FindSinkNodes(old)[1]
                    /\ new_source' = FindSourceNodes(new)[1]
                    /\ new_sink' = FindSinkNodes(new)[1]
                    /\ rpc' = "add"
                    /\ UNCHANGED result
    /\ UNCHANGED <<old, new, call, entry, original>>
    /\ UNCHANGED otherThanReplace

\* Steps 1 to 4: the unique source and sink of old and of new.
ReplaceCheck ==
    /\ rpc = "check"
    /\ IF \/ Len(FindSourceNodes(old)) # 1
          \/ Len(FindSinkNodes(old)) # 1
          \/ Len(FindSourceNodes(new)) # 1
          \/ Len(FindSinkNodes(new)) # 1
       THEN /\ result' = "False"
            /\ rpc' = "returned"
            /\ UNCHANGED <<old_source, old_sink, new_source, new_sink>>
       ELSE /\ old_source' = FindSourceNodes(old)[1]
            /\ old_sink' = FindSinkNodes(old)[1]
            /\ new_source' = FindSourceNodes(new)[1]
            /\ new_sink' = FindSinkNodes(new)[1]
            /\ rpc' = "add"
            /\ UNCHANGED result
    /\ UNCHANGED <<graph, old, new, call, entry, original>>
    /\ UNCHANGED otherThanReplace

\* Step 5 without 5.2: the nodes of new, not its edges.
ReplaceAddNodesOnly ==
    /\ rpc = "add"
    /\ graph' = AddNodesFrom(graph, new.nodes)
    /\ rpc' = "redirect_in"
    /\ UNCHANGED <<old, new, result, old_source, old_sink, new_source,
                   new_sink, call, entry, original>>
    /\ UNCHANGED otherThanReplace

\* Step 5: add the nodes and the edges of new.
ReplaceAdd ==
    /\ rpc = "add"
    /\ graph' = AddEdgesFrom(AddNodesFrom(graph, new.nodes), new.edges)
    /\ rpc' = "redirect_in"
    /\ UNCHANGED <<old, new, result, old_source, old_sink, new_source,
                   new_sink, call, entry, original>>
    /\ UNCHANGED otherThanReplace

\* Step 6: change_edge_dest(graph, old_source, new_source).
ReplaceRedirectIn ==
    /\ rpc = "redirect_in"
    /\ graph' = ChangeEdgeDest(graph, old_source, new_source)
    /\ rpc' = "redirect_out"
    /\ UNCHANGED <<old, new, result, old_source, old_sink, new_source,
                   new_sink, call, entry, original>>
    /\ UNCHANGED otherThanReplace

\* Step 7: change_edge_src(graph, old_sink, new_sink).
ReplaceRedirectOut ==
    /\ rpc = "redirect_out"
    /\ graph' = ChangeEdgeSrc(graph, old_sink, new_sink)
    /\ rpc' = "remove"
    /\ UNCHANGED <<old, new, result, old_source, old_sink, new_source,
                   new_sink, call, entry, original>>
    /\ UNCHANGED otherThanReplace

\* Steps 8 and 10: remove the nodes of old, return True.
ReplaceRemove ==
    /\ rpc = "remove"
    /\ graph' = RemoveNodesFrom(graph, old.nodes)
    /\ result' = "True"
    /\ rpc' = "returned"
    /\ UNCHANGED <<old, new, old_source, old_sink, new_source, new_sink,
                   call, entry, original>>
    /\ UNCHANGED otherThanReplace

\* After a successful replace_subgraph(graph, old, new), the caller calls
\* replace_subgraph(graph, new, old).
ReplaceBack ==
    /\ rpc = "returned"
    /\ result = "True"
    /\ call = 1
    /\ call' = 2
    /\ old' = new
    /\ new' = old
    /\ entry' = graph
    /\ rpc' = "check"
    /\ result' = "None"
    /\ old_source' = 0
    /\ old_sink' = 0
    /\ new_source' = 0
    /\ new_sink' = 0
    /\ UNCHANGED <<graph, original>>
    /\ UNCHANGED otherThanReplace

NextReplace ==
    \/ ReplaceCheck
    \/ ReplaceAdd
    \/ ReplaceRedirectIn
    \/ ReplaceRedirectOut
    \/ ReplaceRemove
    \/ ReplaceBack

SpecReplace == InitReplace /\ [][NextReplace]_vars

(***************************************************************************)
(* change_edge_dest and change_edge_src, statement by statement            *)
(***************************************************************************)
\* The nodes of the graph; an edge may lead from any node to any node.
RedirectNodes == 1..3

RedirectPairs == RedirectNodes \X RedirectNodes

\* The edges es with the payload None.
WithoutData(es) == [i \in 1..Len(es) |-> [es[i] EXCEPT !.data = NoData]]

InitRedirect ==
    /\ cfn \in {"dest", "src"}
    /\ \E multi \in BOOLEAN, payload \in BOOLEAN :
         \E ps \in {S \in SUBSET RedirectPairs :
                       Cardinality(S) <= MaxRedirectEdges} :
           LET g == MakeGraph(multi, [i \in RedirectNodes |-> i], ps)
           IN c_graph = IF payload THEN g
                        ELSE [g EXCEPT !.edges = WithoutData(@)]
    /\ c_node_a \in RedirectNodes
    /\ c_node_b \in RedirectNodes \ {c_node_a}
    /\ c_edges = <<>>
    /\ c_edge = <<>>
    /\ cpc = "list"
    /\ c_entry = c_graph
    /\ IdleTopo
    /\ IdleSearch
    /\ IdleReplace
    /\ IdleMerge

\* `edges` taken to be every edge of the graph.
ChangeListAll ==
    /\ cpc = "list"
    /\ c_edges' = c_graph.edges
    /\ cpc' = "remove"
    /\ UNCHANGED <<cfn, c_graph, c_node_a, c_node_b, c_edge, c_entry>>
    /\ UNCHANGED otherThanRedirect

\* Lines 183, 216: edges = list(graph.in_edges(node_a)), or out_edges.
ChangeList ==
    /\ cpc = "list"
    /\ c_edges' = IF cfn = "dest" THEN InEdges(c_graph, c_node_a)
                  ELSE OutEdges(c_graph, c_node_a)
    /\ cpc' = "remove"
    /\ UNCHANGED <<cfn, c_graph, c_node_a, c_node_b, c_edge, c_entry>>
    /\ UNCHANGED otherThanRedirect

\* The loop leaving the edge e in the graph.
ChangeRemoveNothing ==
    /\ cpc = "remove"
    /\ c_edges # <<>>
    /\ c_edge' = <<Head(c_edges)>>
    /\ c_edges' = Tail(c_edges)
    /\ cpc' = "add"
    /\ UNCHANGED <<cfn, c_graph, c_node_a, c_node_b, c_entry>>
    /\ UNCHANGED otherThanRedirect

\* Lines 184-186, 217-219: `for e in edges: graph.remove_edge(e)`.
ChangeRemove ==
    /\ cpc = "remove"
    /\ c_edges # <<>>
    /\ c_edge' = <<Head(c_edges)>>
    /\ c_edges' = Tail(c_edges)
    /\ c_graph' = RemoveEdge(c_graph, Head(c_edges))
    /\ cpc' = "add"
    /\ UNCHANGED <<cfn, c_node_a, c_node_b, c_entry>>
    /\ UNCHANGED otherThanRedirect

\* Lines 188-191, 221-224: insert the copy of e that ends, or starts, at
\* node_b.
ChangeAdd ==
    /\ cpc = "add"
    /\ LET e == c_edge[1]
           moved == IF cfn = "dest"
                    THEN IF e.multi
                         THEN MultiConnectorEdge(e.src, e.src_conn, c_node_b,
                                                 e.dst_conn, e.data)
                         ELSE PlainEdge(e.src, c_node_b, e.data)
                    ELSE IF e.multi
                         THEN MultiConnectorEdge(c_node_b, e.src_conn, e.dst,
                                                 e.dst_conn, e.data)
                         ELSE PlainEdge(c_node_b, e.dst, e.data)
       IN c_graph' = AddEdge(c_graph, moved)
    /\ c_edge' = <<>>
    /\ cpc' = "remove"
    /\ UNCHANGED <<cfn, c_node_a, c_node_b, c_edges, c_entry>>
    /\ UNCHANGED otherThanRedirect

\* The loop is over: the function returns.
ChangeReturn ==
    /\ cpc = "remove"
    /\ c_edges = <<>>
    /\ cpc' = "done"
    /\ UNCHANGED <<cfn, c_graph, c_node_a, c_node_b, c_edges, c_edge, c_entry>>
    /\ UNCHANGED otherThanRedirect

NextRedirect == ChangeList \/ ChangeRemove \/ ChangeAdd \/ ChangeReturn

SpecRedirect == InitRedirect /\ [][NextRedirect]_vars

(***************************************************************************)
(* merge_maps                                                              *)
(***************************************************************************)
\* The nodes of the graph: the four map nodes, a node inside the inner map,
\* a producer before and a consumer after the outer map, the two new nodes.
outer_map_entry == 1
outer_map_exit == 2
inner_map_entry == 3
inner_map_exit == 4
inner_node == 5
producer == 6
consumer == 7
merged_entry == 8
merged_exit == 9

BoundaryNodes ==
    {outer_map_entry, outer_map_exit, inner_map_entry, inner_map_exit}

\* The maps of the two entries.
OuterMap ==
    [label |-> "outer", params |-> <<"i">>,
     range |-> [kind |-> "Range", ranges |-> <<"0:N">>],
     schedule |-> "outer_schedule", unroll |-> TRUE, is_async |-> FALSE,
     flatten |-> TRUE, debuginfo |-> "outer_debuginfo"]

InnerMap ==
    [label |-> "inner", params |-> <<"j">>,
     range |-> [kind |-> "Indices", ranges |-> <<"0:M">>],
     schedule |-> "inner_schedule", unroll |-> FALSE, is_async |-> TRUE,
     flatten |-> FALSE, debuginfo |-> "inner_debuginfo"]

NoMap ==
    [label |-> "", params |-> <<>>,
     range |-> [kind |-> "", ranges |-> <<>>], schedule |-> "",
     unroll |-> FALSE, is_async |-> FALSE, flatten |-> FALSE,
     debuginfo |-> ""]

\* The maps a caller may pass: those of the two entries with any schedule
\* and any flags.
Schedules == {"outer_schedule", "inner_schedule"}

ScopeMaps(map) ==
    {[map EXCEPT !.schedule = s, !.unroll = u, !.is_async = a,
                 !.flatten = f] :
        s \in Schedules, u \in BOOLEAN, a \in BOOLEAN, f \in BOOLEAN}

\* The default param_merge and range_merge: lambda p1, p2: p1 + p2 and
\* lambda r1, r2: type(r1)(r1.ranges + r2.ranges).
ParamMerge(p1, p2) == p1 \o p2

RangeMerge(r1, r2) == [kind |-> r1.kind, ranges |-> r1.ranges \o r2.ranges]

\* A param_merge and a range_merge of the caller's: the inner map first.
CustomParamMerge(p1, p2) == p2 \o p1

CustomRangeMerge(r1, r2) ==
    [kind |-> r2.kind, ranges |-> r2.ranges \o r1.ranges]

\* param_merge(p1, p2) and range_merge(r1, r2), whichever were passed.
CallParamMerge(p1, p2) ==
    IF param_merge = "default" THEN ParamMerge(p1, p2)
    ELSE CustomParamMerge(p1, p2)

CallRangeMerge(r1, r2) ==
    IF range_merge = "default" THEN RangeMerge(r1, r2)
    ELSE CustomRangeMerge(r1, r2)

\* The merged map inheriting its attributes from the inner map.
MergedMapFromInner(outer_map, inner_map) ==
    [label |-> "_merged_" \o outer_map.label \o "_" \o inner_map.label,
     params |-> CallParamMerge(outer_map.params, inner_map.params),
     range |-> CallRangeMerge(outer_map.range, inner_map.range),
     schedule |-> inner_map.schedule,
     unroll |-> inner_map.unroll,
     is_async |-> inner_map.is_async,
     flatten |-> inner_map.flatten,
     debuginfo |-> inner_map.debuginfo]

MergedMap(outer_map, inner_map) ==
    [label |-> "_merged_" \o outer_map.label \o "_" \o inner_map.label,
     params |-> CallParamMerge(outer_map.params, inner_map.params),
     range |-> CallRangeMerge(outer_map.range, inner_map.range),
     schedule |-> outer_map.schedule,
     unroll |-> outer_map.unroll,
     is_async |-> outer_map.is_async,
     flatten |-> outer_map.flatten,
     debuginfo |-> outer_map.debuginfo]

\* The edges the graph may have before the call, each with its own payload.
MergePool ==
    <<MultiConnectorEdge(producer, <<"o">>, outer_map_entry, InConn(1), 101),
      MultiConnectorEdge(outer_map_entry, OutConn(1), inner_map_entry,
                         InConn(1), 102),
      MultiConnectorEdge(outer_map_entry, OutConn(2), inner_map_entry,
                         InConn(2), 103),
      MultiConnectorEdge(inner_map_entry, OutConn(1), inner_node, <<"a">>, 104),
      MultiConnectorEdge(inner_map_entry, OutConn(1), inner_node, <<"b">>, 105),
      MultiConnectorEdge(inner_map_entry, OutConn(2), inner_node, <<"a">>, 106),
      MultiConnectorEdge(inner_map_entry, OutConn(1), inner_map_exit,
                         InConn(1), 107),
      MultiConnectorEdge(inner_node, <<"c">>, inner_map_exit, InConn(1), 108),
      MultiConnectorEdge(inner_node, <<"d">>, inner_map_exit, InConn(1), 109),
      MultiConnectorEdge(inner_node, <<"c">>, inner_map_exit, InConn(2), 110),
      MultiConnectorEdge(inner_map_exit, OutConn(1), outer_map_exit,
                         InConn(1), 111),
      MultiConnectorEdge(inner_map_exit, OutConn(2), outer_map_exit,
                         InConn(2), 112),
      MultiConnectorEdge(inner_map_exit, OutConn(1), outer_map_exit,
                         InConn(2), 113),
      MultiConnectorEdge(outer_map_exit, OutConn(1), consumer, <<"i">>, 114),
      MultiConnectorEdge(producer, <<"p">>, consumer, <<"j">>, 115),
      MultiConnectorEdge(producer, <<"q">>, outer_map_entry, InConn(2), 116),
      MultiConnectorEdge(outer_map_exit, OutConn(2), consumer, <<"k">>, 117)>>

RECURSIVE SortedInts(_)
SortedInts(S) ==
    IF S = {} THEN <<>>
    ELSE LET m == CHOOSE x \in S : \A y \in S : x <= y
         IN <<m>> \o SortedInts(S \ {m})

MergeGraph(picked) ==
    [nodes |-> <<outer_map_entry, outer_map_exit, inner_map_entry,
                 inner_map_exit, inner_node, producer, consumer>>,
     edges |-> [i \in 1..Cardinality(picked) |->
                    MergePool[SortedInts(picked)[i]]]]

\* entry.map and exit.map: the two nodes of a map share its Map object; the
\* other nodes have none.
MapOf(outer, inner) ==
    [n \in 1..merged_exit |->
        IF n \in {outer_map_entry, outer_map_exit} THEN outer
        ELSE IF n \in {inner_map_entry, inner_map_exit} THEN inner
        ELSE 0]

InitMerge ==
    /\ \E picked \in {S \in SUBSET (1..Len(MergePool)) :
                         Cardinality(S) <= MaxMergeEdges} :
         mgraph = MergeGraph(picked)
    /\ moriginal = mgraph
    /\ mpc = "create"
    /\ todo = <<>>
    /\ inner_edges = <<>>
    /\ merged_map = NoMap
    /\ param_merge = "default"
    /\ range_merge = "default"
    /\ maps = <<OuterMap, InnerMap>>
    /\ map_of = MapOf(1, 2)
    /\ IdleTopo
    /\ IdleSearch
    /\ IdleReplace
    /\ IdleRedirect

\* Lines 337-364: the merged map, its entry and exit, and the edge lists the
\* first loop reads.
MergeCreate ==
    /\ mpc = "create"
    /\ LET outer_map == maps[map_of[outer_map_entry]]
           inner_map == maps[map_of[inner_map_entry]]
       IN /\ merged_map' = MergedMap(outer_map, inner_map)
          /\ maps' = Append(maps, MergedMap(outer_map, inner_map))
    /\ map_of' = [map_of EXCEPT ![merged_entry] = Len(maps) + 1,
                                ![merged_exit] = Len(maps) + 1]
    /\ mgraph' = AddNodesFrom(mgraph, <<merged_entry, merged_exit>>)
    /\ inner_edges' = OutEdges(mgraph, inner_map_entry)
    /\ todo' = EdgesBetween(mgraph, outer_map_entry, inner_map_entry)
    /\ mpc' = "entry_loop"
    /\ UNCHANGED <<moriginal, param_merge, range_merge>>
    /\ UNCHANGED otherThanMerge

\* edge.dst_conn[3:] and edge.src_conn[4:]
SliceFrom(name, n) == SubSeq(name, n + 1, Len(name))

\* The first loop passing over an edge that has no matching inner edge.
MergeEntryEdgeSkip ==
    /\ mpc = "entry_loop"
    /\ todo # <<>>
    /\ LET edge == Head(todo)
           in_conn_num == SliceFrom(edge.dst_conn, 3)
           out_conn == <<"O", "U", "T", "_">> \o in_conn_num
           matching == SelectSeq(inner_edges, LAMBDA e : e.src_conn = out_conn)
       IN IF matching = <<>>
          THEN /\ todo' = Tail(todo)
               /\ UNCHANGED <<mgraph, mpc>>
          ELSE LET inner_edge == matching[1]
               IN \/ /\ ~HasEdge(RemoveEdge(mgraph, edge), inner_edge)
                     /\ mpc' = "error"
                     /\ mgraph' = RemoveEdge(mgraph, edge)
                     /\ UNCHANGED todo
                  \/ /\ mgraph' = AddEdge(
                            RemoveEdge(RemoveEdge(mgraph, edge), inner_edge),
                            MultiConnectorEdge(merged_entry, edge.src_conn,
                                inner_edge.dst, inner_edge.dst_conn,
                                inner_edge.data))
                     /\ todo' = Tail(todo)
                     /\ UNCHANGED mpc
    /\ UNCHANGED <<inner_edges, merged_map, moriginal, param_merge,
                   range_merge, maps, map_of>>
    /\ UNCHANGED otherThanMerge

\* One iteration of `for edge in graph.edges_between(outer_map_entry,
\* inner_map_entry)`.  Removing an edge that is no longer in the graph either
\* fails or does nothing: the graph's contract does not say which.
MergeEntryEdge ==
    /\ mpc = "entry_loop"
    /\ todo # <<>>
    /\ LET edge == Head(todo)
           in_conn_num == SliceFrom(edge.dst_conn, 3)
           out_conn == <<"O", "U", "T", "_">> \o in_conn_num
           matching == SelectSeq(inner_edges, LAMBDA e : e.src_conn = out_conn)
       IN IF matching = <<>>
          THEN \* IndexError
               /\ mpc' = "error"
               /\ UNCHANGED <<mgraph, todo>>
          ELSE LET inner_edge == matching[1]
               IN \/ /\ ~HasEdge(RemoveEdge(mgraph, edge), inner_edge)
                     /\ mpc' = "error"
                     /\ mgraph' = RemoveEdge(mgraph, edge)
                     /\ UNCHANGED todo
                  \/ /\ mgraph' = AddEdge(
                            RemoveEdge(RemoveEdge(mgraph, edge), inner_edge),
                            MultiConnectorEdge(merged_entry, edge.src_conn,
                                inner_edge.dst, inner_edge.dst_conn,
                                inner_edge.data))
                     /\ todo' = Tail(todo)
                     /\ UNCHANGED mpc
    /\ UNCHANGED <<inner_edges, merged_map, moriginal, param_merge,
                   range_merge, maps, map_of>>
    /\ UNCHANGED otherThanMerge

\* The entry nodes removed as soon as the first loop is over.
MergeExitListsEntriesRemoved ==
    /\ mpc = "entry_loop"
    /\ todo = <<>>
    /\ inner_edges' = InEdges(mgraph, inner_map_exit)
    /\ todo' = EdgesBetween(mgraph, inner_map_exit, outer_map_exit)
    /\ mgraph' = RemoveNodesFrom(mgraph, <<outer_map_entry, inner_map_entry>>)
    /\ mpc' = "exit_loop"
    /\ UNCHANGED <<merged_map, moriginal, param_merge, range_merge,
                   maps, map_of>>
    /\ UNCHANGED otherThanMerge

\* Lines 374-375: the edge lists the second loop reads.
MergeExitLists ==
    /\ mpc = "entry_loop"
    /\ todo = <<>>
    /\ inner_edges' = InEdges(mgraph, inner_map_exit)
    /\ todo' = EdgesBetween(mgraph, inner_map_exit, outer_map_exit)
    /\ mpc' = "exit_loop"
    /\ UNCHANGED <<mgraph, merged_map, moriginal, param_merge, range_merge,
                   maps, map_of>>
    /\ UNCHANGED otherThanMerge

\* The second loop giving the new edge the payload of the outer edge.
MergeExitEdgeOuterData ==
    /\ mpc = "exit_loop"
    /\ todo # <<>>
    /\ LET edge == Head(todo)
           out_conn_num == SliceFrom(edge.src_conn, 4)
           in_conn == <<"I", "N", "_">> \o out_conn_num
           matching == SelectSeq(inner_edges, LAMBDA e : e.dst_conn = in_conn)
       IN IF matching = <<>>
          THEN /\ mpc' = "error"
               /\ UNCHANGED <<mgraph, todo>>
          ELSE LET inner_edge == matching[1]
               IN \/ /\ ~HasEdge(RemoveEdge(mgraph, edge), inner_edge)
                     /\ mpc' = "error"
                     /\ mgraph' = RemoveEdge(mgraph, edge)
                     /\ UNCHANGED todo
                  \/ /\ mgraph' = AddEdge(
                            RemoveEdge(RemoveEdge(mgraph, edge), inner_edge),
                            MultiConnectorEdge(inner_edge.src,
                                inner_edge.src_conn, merged_exit,
                                edge.dst_conn, edge.data))
                     /\ todo' = Tail(todo)
                     /\ UNCHANGED mpc
    /\ UNCHANGED <<inner_edges, merged_map, moriginal, param_merge,
                   range_merge, maps, map_of>>
    /\ UNCHANGED otherThanMerge

\* One iteration of `for edge in graph.edges_between(inner_map_exit,
\* outer_map_exit)`.
MergeExitEdge ==
    /\ mpc = "exit_loop"
    /\ todo # <<>>
    /\ LET edge == Head(todo)
           out_conn_num == SliceFrom(edge.src_conn, 4)
           in_conn == <<"I", "N", "_">> \o out_conn_num
           matching == SelectSeq(inner_edges, LAMBDA e : e.dst_conn = in_conn)
       IN IF matching = <<>>
          THEN \* IndexError
               /\ mpc' = "error"
               /\ UNCHANGED <<mgraph, todo>>
          ELSE LET inner_edge == matching[1]
               IN \/ /\ ~HasEdge(RemoveEdge(mgraph, edge), inner_edge)
                     /\ mpc' = "error"
                     /\ mgraph' = RemoveEdge(mgraph, edge)
                     /\ UNCHANGED todo
                  \/ /\ mgraph' = AddEdge(
                            RemoveEdge(RemoveEdge(mgraph, edge), inner_edge),
                            MultiConnectorEdge(inner_edge.src,
                                inner_edge.src_conn, merged_exit,
                                edge.dst_conn, inner_edge.data))
                     /\ todo' = Tail(todo)
                     /\ UNCHANGED mpc
    /\ UNCHANGED <<inner_edges, merged_map, moriginal, param_merge,
                   range_merge, maps, map_of>>
    /\ UNCHANGED otherThanMerge

\* The redirection without its second call, change_edge_src.
MergeRedirectEntryOnly ==
    /\ mpc = "exit_loop"
    /\ todo = <<>>
    /\ mgraph' = ChangeEdgeDest(mgraph, outer_map_entry, merged_entry)
    /\ mpc' = "cleanup"
    /\ UNCHANGED <<todo, inner_edges, merged_map, moriginal, param_merge,
                   range_merge, maps, map_of>>
    /\ UNCHANGED otherThanMerge

\* Lines 384-386: redirect the outer edges.
MergeRedirect ==
    /\ mpc = "exit_loop"
    /\ todo = <<>>
    /\ mgraph' = ChangeEdgeSrc(
           ChangeEdgeDest(mgraph, outer_map_entry, merged_entry),
           outer_map_exit, merged_exit)
    /\ mpc' = "cleanup"
    /\ UNCHANGED <<todo, inner_edges, merged_map, moriginal, param_merge,
                   range_merge, maps, map_of>>
    /\ UNCHANGED otherThanMerge

\* The clean-up forgetting the nodes of the inner map.
MergeCleanupOuterOnly ==
    /\ mpc = "cleanup"
    /\ mgraph' = RemoveNodesFrom(mgraph, <<outer_map_entry, outer_map_exit>>)
    /\ mpc' = "returned"
    /\ UNCHANGED <<todo, inner_edges, merged_map, moriginal, param_merge,
                   range_merge, maps, map_of>>
    /\ UNCHANGED otherThanMerge

\* Lines 388-392: remove the four map nodes, return the new pair.
MergeCleanup ==
    /\ mpc = "cleanup"
    /\ mgraph' = RemoveNodesFrom(mgraph,
           <<outer_map_entry, outer_map_exit, inner_map_entry, inner_map_exit>>)
    /\ mpc' = "returned"
    /\ UNCHANGED <<todo, inner_edges, merged_map, moriginal, param_merge,
                   range_merge, maps, map_of>>
    /\ UNCHANGED otherThanMerge

NextMerge ==
    \/ MergeCreate
    \/ MergeEntryEdge
    \/ MergeExitLists
    \/ MergeExitEdge
    \/ MergeRedirect
    \/ MergeCleanup

SpecMerge == InitMerge /\ [][NextMerge]_vars

\* merge_maps on two nested maps with pass-through connectors, for every
\* pair of maps and every pair of merge functions.
NestedEdges == {2, 4, 8, 11}

OuterEdges == {1, 14}

InitMergeMaps ==
    /\ \E picked \in SUBSET OuterEdges :
         mgraph = MergeGraph(NestedEdges \cup picked)
    /\ moriginal = mgraph
    /\ mpc = "create"
    /\ todo = <<>>
    /\ inner_edges = <<>>
    /\ merged_map = NoMap
    /\ param_merge \in {"default", "custom"}
    /\ range_merge \in {"default", "custom"}
    /\ \E outer \in ScopeMaps(OuterMap), inner \in ScopeMaps(InnerMap) :
         maps = <<outer, inner>>
    /\ map_of = MapOf(1, 2)
    /\ IdleTopo
    /\ IdleSearch
    /\ IdleReplace
    /\ IdleRedirect

SpecMergeMaps == InitMergeMaps /\ [][NextMerge]_vars

(***************************************************************************)
(* Properties of dfs_topological_sort.                                     *)
(***************************************************************************)
RECURSIVE ReachableIn(_, _, _)
\* The nodes reached from the set ns over at most k edges of g.
ReachableIn(g, ns, k) ==
    IF k = 0 THEN ns
    ELSE ReachableIn(g, ns \cup {e.dst : e \in {x \in EdgeSet(g) : x.src \in ns}},
                     k - 1)

Acyclic(g) ==
    \A e \in EdgeSet(g) : e.src \notin ReachableIn(g, {e.dst}, Len(g.nodes))

\* C1: on an acyclic graph and without a condition, every node emitted,
\* start nodes included, has all its predecessors emitted strictly earlier.
C1_PredecessorsEmittedEarlier ==
    (Acyclic(G) /\ ~condition.given) =>
        \A i \in 1..Len(out) :
            \A p \in Predecessors(G, out[i]) :
                \E j \in 1..(i - 1) : out[j] = p

WholeGraphWalk == tpc # "idle" /\ ~sources.given /\ ~condition.given /\ Acyclic(G)

\* C15: without sources and without a condition, on an acyclic graph, the
\* generator ends having yielded every node of G, and at no point has it
\* yielded a node twice.
C15_CoversGraph ==
    /\ [](WholeGraphWalk => Injective(out))
    /\ WholeGraphWalk ~> (tpc = "done" /\ SeqToSet(out) = NodeSet(G))

\* The walk has ended on a graph in which a node c has the predecessors a
\* and p, p not reachable from a and yielded after a: c was deferred when
\* the walk from a met it.
C15_Witness ==
    /\ WholeGraphWalk
    /\ tpc = "done"
    /\ \E x, y \in EdgeSet(G) :
          /\ x.dst = y.dst
          /\ x.src # y.src
          /\ y.src \notin ReachableIn(G, {x.src}, Len(G.nodes))
          /\ \E i, j \in 1..Len(out) :
                i < j /\ out[i] = x.src /\ out[j] = y.src

\* The nodes the caller passed, one by one or as one list.
PassedNodes ==
    IF args[1].is_list THEN args[1].list
    ELSE [i \in 1..Len(args) |-> args[i].node]

\* C14: for distinct nodes n1..nk, passed one by one or as one list,
\* node_path_graph gives the graph with the nodes n1..nk and the edges
\* (n_i, n_i+1), and dfs_topological_sort from n1 yields n1, ..., nk in
\* that order.
C14_PathGraph ==
    (args # <<>> /\ Injective(PassedNodes)) =>
        /\ G.nodes = PassedNodes
        /\ G.edges = [i \in 1..(Len(PassedNodes) - 1) |->
                         PlainEdge(PassedNodes[i], PassedNodes[i + 1], NoData)]
        /\ out = SubSeq(PassedNodes, 1, Len(out))
        /\ tpc = "done" => out = PassedNodes

\* The walk of the path graph of three nodes, passed as one list and not in
\* the order of their numbers, has ended.
C14_Witness ==
    /\ tpc = "done"
    /\ Len(args) = 1
    /\ args[1].is_list
    /\ Len(args[1].list) = NumTopoNodes
    /\ Injective(args[1].list)
    /\ args[1].list[1] > args[1].list[2]
    /\ out = args[1].list

(***************************************************************************)
(* Properties of depth_limited_search and depth_limited_dfs_iter.          *)
(***************************************************************************)
RECURSIVE WithinDepth(_, _)
\* The nodes reachable from the nodes ns over at most d child-edges.
WithinDepth(ns, d) ==
    IF d = 0 THEN ns
    ELSE WithinDepth(ns \cup UNION {SeqToSet(children_iter[n]) : n \in ns},
                     d - 1)

\* C6: the value returned is that of the returned node, is >= the value of
\* every node within depth child-edges of source, and is the maximum over them.
C6_BestWithinDepth ==
    (fn = "search" /\ spc = "done") =>
        LET reach == WithinDepth({source}, depth)
        IN /\ ret.node \in reach
           /\ ret.value = val[ret.node]
           /\ \A n \in reach : ret.value >= val[n]

\* The search returned a node that lies two child-edges or more below source.
C6_Witness ==
    /\ fn = "search"
    /\ spc = "done"
    /\ depth >= 2
    /\ ret.node \notin WithinDepth({source}, 1)
    /\ \A n \in WithinDepth({source}, 1) : val[n] < ret.value

\* C7: with depth 0 the result is (source, source.evaluate()); no other node
\* is evaluated and children_iter() is called on no node.
C7_DepthZero ==
    (fn = "search" /\ spc = "done" /\ depth = 0) =>
        /\ ret = [node |-> source, value |-> val[source]]
        /\ \A n \in SearchNodes : evals[n] = (IF n = source THEN 1 ELSE 0)
        /\ \A n \in SearchNodes : expanded[n] = 0

\* The search returned at depth 0 although a child of source has a greater
\* value.
C7_Witness ==
    /\ fn = "search"
    /\ spc = "done"
    /\ depth = 0
    /\ \E c \in SeqToSet(children_iter[source]) : val[c] > val[source]

\* C8: the generator yields exactly the nodes within depth child-edges of
\* source, source included; with depth 0 it yields source alone.
C8_YieldsAllWithinDepth ==
    (fn = "iter" /\ spc = "done") =>
        /\ SeqToSet(yielded) = WithinDepth({source}, depth)
        /\ depth = 0 => yielded = <<source>>

\* C16: during one call of depth_limited_search, evaluate() is called at
\* most once on any node, also on a node that source reaches by several
\* paths within the depth.
C16_EvaluatedAtMostOnce ==
    fn = "search" => \A n \in SearchNodes : evals[n] <= 1

(***************************************************************************)
(* Properties of replace_subgraph.                                         *)
(***************************************************************************)
\* Exactly one node of g has no in-edge in g, exactly one has no out-edge.
UniqueSourceAndSink(g) ==
    /\ Cardinality({n \in NodeSet(g) : \A e \in EdgeSet(g) : e.dst # n}) = 1
    /\ Cardinality({n \in NodeSet(g) : \A e \in EdgeSet(g) : e.src # n}) = 1

Succeeded == rpc = "returned" /\ result = "True"

\* The source of old and of new, as the graphs themselves tell.
SourceOf(g) == CHOOSE n \in NodeSet(g) : \A e \in EdgeSet(g) : e.dst # n

SinkOf(g) == CHOOSE n \in NodeSet(g) : \A e \in EdgeSet(g) : e.src # n

\* C2: when old or new lacks a unique source or a unique sink the call
\* returns False and graph is what it was at entry (nodes, edges, order);
\* nothing is changed before the checks are over.
C2_FailureLeavesGraph ==
    /\ rpc = "check" => graph = entry
    /\ (rpc \notin {"idle", "check"} /\
          ~(UniqueSourceAndSink(old) /\ UniqueSourceAndSink(new))) =>
            (rpc = "returned" /\ result = "False")
    /\ result = "False" => graph = entry

\* old has a unique source but two sinks, graph has edges at old's nodes, and
\* the call has returned False.
C2_Witness ==
    /\ rpc = "returned"
    /\ result = "False"
    /\ call = 1
    /\ Len(FindSourceNodes(old)) = 1
    /\ Len(FindSinkNodes(old)) = 2
    /\ UniqueSourceAndSink(new)
    /\ Len(graph.edges) = MaxGraphEdges

\* C3 as stated: after a successful call every edge that entered old's source
\* enters new's source, every edge that left old's sink leaves new's sink,
\* all else of the edge kept, and there are as many of them as before.
C3_BoundaryEdgesMoved ==
    (Succeeded /\ call = 1) =>
        /\ \A e \in SeqToSet(InEdges(entry, SourceOf(old))) :
              EdgeCount(graph, [e EXCEPT !.dst = SourceOf(new)]) =
                  EdgeCount(entry, e)
        /\ \A e \in SeqToSet(OutEdges(entry, SinkOf(old))) :
              EdgeCount(graph, [e EXCEPT !.src = SinkOf(new)]) =
                  EdgeCount(entry, e)
        /\ InDegree(graph, SourceOf(new)) - InDegree(new, SourceOf(new)) =
              InDegree(entry, SourceOf(old))
        /\ OutDegree(graph, SinkOf(new)) - OutDegree(new, SinkOf(new)) =
              OutDegree(entry, SinkOf(old))

FromOutside(g, sub, n) ==
    SelectSeq(InEdges(g, n), LAMBDA e : e.src \notin NodeSet(sub))

ToOutside(g, sub, n) ==
    SelectSeq(OutEdges(g, n), LAMBDA e : e.dst \notin NodeSet(sub))

\* C3, amended: the same of the edges that entered old's source from a node
\* outside old and of the edges that left old's sink to a node outside old.
C3_OutsideBoundaryEdgesMoved ==
    (Succeeded /\ call = 1) =>
        /\ \A e \in SeqToSet(FromOutside(entry, old, SourceOf(old))) :
              EdgeCount(graph, [e EXCEPT !.dst = SourceOf(new)]) =
                  EdgeCount(entry, e)
        /\ \A e \in SeqToSet(ToOutside(entry, old, SinkOf(old))) :
              EdgeCount(graph, [e EXCEPT !.src = SinkOf(new)]) =
                  EdgeCount(entry, e)
        /\ Len(FromOutside(graph, new, SourceOf(new))) =
              Len(FromOutside(entry, old, SourceOf(old)))
        /\ Len(ToOutside(graph, new, SinkOf(new))) =
              Len(ToOutside(entry, old, SinkOf(old)))

\* A connector graph in which an edge entered old's source from outside and
\* another left old's sink to the outside; the call has succeeded.
C3_Witness ==
    /\ Succeeded
    /\ call = 1
    /\ Len(FromOutside(entry, old, SourceOf(old))) >= 1
    /\ Len(ToOutside(entry, old, SinkOf(old))) >= 1
    /\ \A e \in EdgeSet(entry) : e.multi
    /\ Len(old.nodes) >= 2

\* C4: after a successful call every edge with no endpoint in old is still
\* there, as often as before, and every node outside old is still a node.
C4_OutsideUntouched ==
    Succeeded =>
        /\ \A e \in EdgeSet(entry) :
              (e.src \notin NodeSet(old) /\ e.dst \notin NodeSet(old)) =>
                  EdgeCount(graph, e) >= EdgeCount(entry, e)
        /\ NodeSet(entry) \ NodeSet(old) \subseteq NodeSet(graph)

\* A successful call on a graph with an edge between two nodes outside old
\* and an edge into old's source.
C4_Witness ==
    /\ Succeeded
    /\ call = 1
    /\ \E e \in EdgeSet(entry) :
          e.src \notin NodeSet(old) /\ e.dst \notin NodeSet(old)
    /\ InDegree(entry, SourceOf(old)) >= 1

SameConnectivity(g, h) ==
    /\ NodeSet(g) = NodeSet(h)
    /\ \A e \in EdgeSet(g) \cup EdgeSet(h) : EdgeCount(g, e) = EdgeCount(h, e)

\* C5 as stated: replace_subgraph(graph, old, new) and then
\* replace_subgraph(graph, new, old) leave the nodes and the edges graph had.
C5_RoundTrip ==
    (Succeeded /\ call = 2) => SameConnectivity(graph, original)

\* old is attached to the rest of graph at its source and sink only, and its
\* edges are the edges graph has between its nodes.
AttachedAtBoundary(g, sub) ==
    /\ NodeSet(sub) \subseteq NodeSet(g)
    /\ \A e \in EdgeSet(g) :
          \/ e.src \notin NodeSet(sub) /\ e.dst \notin NodeSet(sub)
          \/ e.src \notin NodeSet(sub) /\ e.dst = SourceOf(sub)
          \/ e.src = SinkOf(sub) /\ e.dst \notin NodeSet(sub)
          \/ e.src \in NodeSet(sub) /\ e.dst \in NodeSet(sub)
    /\ \A e \in EdgeSet(g) \cup EdgeSet(sub) :
          (e.src \in NodeSet(sub) /\ e.dst \in NodeSet(sub)) =>
              EdgeCount(g, e) = EdgeCount(sub, e)

\* C5, amended: the round trip restores the nodes and the edges when old was
\* attached at its source and sink only and held the edges between its nodes.
C5_RoundTripWhenAttachedAtBoundary ==
    (Succeeded /\ call = 2 /\ AttachedAtBoundary(original, new)) =>
        SameConnectivity(graph, original)

\* The second call has succeeded on a graph in which old had an inner edge, an
\* edge into its source and an edge out of its sink.
C5_Witness ==
    /\ Succeeded
    /\ call = 2
    /\ AttachedAtBoundary(original, new)
    /\ Len(new.edges) >= 1
    /\ Len(FromOutside(original, new, SourceOf(new))) >= 1
    /\ Len(ToOutside(original, new, SinkOf(new))) >= 1

C10_BoundaryNodesGone ==
    mpc = "returned" =>
        /\ NodeSet(mgraph) \cap BoundaryNodes = {}
        /\ \A e \in EdgeSet(mgraph) :
              e.src \notin BoundaryNodes /\ e.dst \notin BoundaryNodes

\* merge_maps has returned on a graph in which each of the four nodes had
\* edges, some of them left unmatched by the two loops.
C10_Witness ==
    /\ mpc = "returned"
    /\ \A n \in BoundaryNodes :
          InDegree(moriginal, n) >= 1 /\ OutDegree(moriginal, n) >= 1
    /\ OutDegree(moriginal, inner_map_entry) >= 2
    /\ Len(mgraph.edges) >= 3

\* C11: the map of merged_entry and merged_exit is one new Map object whose
\* params are param_merge(outer params, inner params), whose range is
\* range_merge(outer range, inner range) (by default the outer followed by
\* the inner), and whose schedule, unroll, is_async and flatten are those of
\* the outer map.
C11_MergedMapFromOuter ==
    mpc \notin {"idle", "create"} =>
        LET outer == maps[map_of[outer_map_entry]]
            inner == maps[map_of[inner_map_entry]]
            merged == maps[map_of[merged_entry]]
        IN /\ map_of[merged_entry] = map_of[merged_exit]
           /\ map_of[merged_entry] \notin
                 {0, map_of[outer_map_entry], map_of[inner_map_entry]}
           /\ param_merge = "default" =>
                 merged.params = outer.params \o inner.params
           /\ param_merge = "custom" =>
                 merged.params = CustomParamMerge(outer.params, inner.params)
           /\ range_merge = "default" =>
                 /\ merged.range.ranges =
                       outer.range.ranges \o inner.range.ranges
                 /\ merged.range.kind = outer.range.kind
           /\ range_merge = "custom" =>
                 merged.range = CustomRangeMerge(outer.range, inner.range)
           /\ merged.schedule = outer.schedule
           /\ merged.unroll = outer.unroll
           /\ merged.is_async = outer.is_async
           /\ merged.flatten = outer.flatten

\* merge_maps has returned for two maps that differ in schedule and in every
\* flag, with the caller's param_merge and the default range_merge.
C11_Witness ==
    /\ mpc = "returned"
    /\ param_merge = "custom"
    /\ range_merge = "default"
    /\ maps[1].schedule # maps[2].schedule
    /\ maps[1].unroll # maps[2].unroll
    /\ maps[1].is_async # maps[2].is_async
    /\ maps[1].flatten # maps[2].flatten
    /\ maps[map_of[merged_entry]].params = <<"j", "i">>

\* The connectors IN_k and OUT_k of one number k.
Paired(in_conn, out_conn) ==
    \E k \in 0..9 : in_conn = InConn(k) /\ out_conn = OutConn(k)

\* An edge outer_map_entry -> inner_map_entry whose IN_k has no OUT_k among
\* the out-edges of inner_map_entry.
UnmatchedEntryEdge(g) ==
    \E x \in SeqToSet(EdgesBetween(g, outer_map_entry, inner_map_entry)) :
        \A y \in SeqToSet(OutEdges(g, inner_map_entry)) :
            ~Paired(x.dst_conn, y.src_conn)

\* An edge inner_map_exit -> outer_map_exit whose OUT_k has no IN_k among the
\* in-edges of inner_map_exit.
UnmatchedExitEdge(g) ==
    \E x \in SeqToSet(EdgesBetween(g, inner_map_exit, outer_map_exit)) :
        \A y \in SeqToSet(InEdges(g, inner_map_exit)) :
            ~Paired(y.dst_conn, x.src_conn)

\* C13: when an edge outer_map_entry -> inner_map_entry, or an edge
\* inner_map_exit -> outer_map_exit, has no matching inner edge, merge_maps
\* does not get past the loop that meets it: it never returns a merged pair.
C13_UnmatchedEdgeFails ==
    /\ UnmatchedEntryEdge(moriginal) =>
          mpc \notin {"exit_loop", "cleanup", "returned"}
    /\ UnmatchedExitEdge(moriginal) => mpc \notin {"cleanup", "returned"}

\* merge_maps has failed at the second of two edges outer_map_entry ->
\* inner_map_entry, after it had rewired the first.
C13_Witness ==
    /\ mpc = "error"
    /\ UnmatchedEntryEdge(moriginal)
    /\ Len(EdgesBetween(moriginal, outer_map_entry, inner_map_entry)) = 2
    /\ \E x \in EdgeSet(mgraph) : x.src = merged_entry

\* The step from g to h takes the edges x and y out of the graph and puts
\* the one edge z in: x is there once less, y is gone, z is there once more,
\* and every other edge is there as often as before.
ReplacedByOne(g, h, x, y, z) ==
    /\ EdgeCount(h, x) = EdgeCount(g, x) - 1
    /\ EdgeCount(h, y) = 0
    /\ EdgeCount(h, z) = EdgeCount(g, z) + 1
    /\ \A w \in (EdgeSet(g) \cup EdgeSet(h)) \ {x, y, z} :
          EdgeCount(h, w) = EdgeCount(g, w)

\* C17: an iteration of the first loop replaces the edge outer_map_entry[c]
\* -> inner_map_entry[IN_k] and a matching edge inner_map_entry[OUT_k] ->
\* X[d] with payload p by the one edge merged_entry[c] -> X[d] with payload
\* p; an iteration of the second loop replaces inner_map_exit[OUT_k] ->
\* outer_map_exit[d'] and a matching Y[s] -> inner_map_exit[IN_k] with
\* payload q by the one edge Y[s] -> merged_exit[d'] with payload q.
C17_PairReplacedByOneEdge ==
    [][/\ (mpc = "entry_loop" /\ todo # <<>> /\ mpc' = "entry_loop") =>
            \E y \in SeqToSet(OutEdges(moriginal, inner_map_entry)) :
                /\ Paired(Head(todo).dst_conn, y.src_conn)
                /\ ReplacedByOne(mgraph, mgraph', Head(todo), y,
                       MultiConnectorEdge(merged_entry, Head(todo).src_conn,
                                          y.dst, y.dst_conn, y.data))
       /\ (mpc = "exit_loop" /\ todo # <<>> /\ mpc' = "exit_loop") =>
            \E y \in SeqToSet(inner_edges) :
                /\ y.dst = inner_map_exit
                /\ Paired(y.dst_conn, Head(todo).src_conn)
                /\ ReplacedByOne(mgraph, mgraph', Head(todo), y,
                       MultiConnectorEdge(y.src, y.src_conn, merged_exit,
                                          Head(todo).dst_conn, y.data))
      ]_vars

\* merge_maps has returned after both loops had rewired an edge: the graph
\* has an edge from merged_entry and an edge into merged_exit that carry the
\* payloads of inner edges.
C17_Witness ==
    /\ mpc = "returned"
    /\ \E x \in EdgeSet(mgraph), y \in EdgeSet(moriginal) :
          /\ x.src = merged_entry
          /\ y.src = inner_map_entry
          /\ x.data = y.data
    /\ \E x \in EdgeSet(mgraph), y \in EdgeSet(moriginal) :
          /\ x.dst = merged_exit
          /\ y.dst = inner_map_exit
          /\ x.data = y.data

\* C18: once merge_maps has returned, every edge inner_map_entry[OUT_k] -> X
\* of the graph before the call, X inside the inner map and IN_k fed by the
\* outer map, has an edge merged_entry -> X with its destination connector
\* and payload, and every edge Y -> inner_map_exit[IN_k], Y inside the inner
\* map and OUT_k read by the outer map, has an edge Y -> merged_exit with
\* its source connector and payload; several edges at one OUT_k or one IN_k
\* included.
C18_InnerConnectivityKept ==
    mpc = "returned" =>
        /\ \A y \in SeqToSet(OutEdges(moriginal, inner_map_entry)) :
              (/\ y.dst \notin BoundaryNodes
               /\ \E x \in SeqToSet(EdgesBetween(moriginal, outer_map_entry,
                                                  inner_map_entry)) :
                     Paired(x.dst_conn, y.src_conn)) =>
                  \E z \in EdgeSet(mgraph) :
                      /\ z.src = merged_entry
                      /\ z.dst = y.dst
                      /\ z.dst_conn = y.dst_conn
                      /\ z.data = y.data
        /\ \A y \in SeqToSet(InEdges(moriginal, inner_map_exit)) :
              (/\ y.src \notin BoundaryNodes
               /\ \E x \in SeqToSet(EdgesBetween(moriginal, inner_map_exit,
                                                  outer_map_exit)) :
                     Paired(y.dst_conn, x.src_conn)) =>
                  \E z \in EdgeSet(mgraph) :
                      /\ z.dst = merged_exit
                      /\ z.src = y.src
                      /\ z.src_conn = y.src_conn
                      /\ z.data = y.data

\* C19: once merge_maps has returned, every edge that entered
\* outer_map_entry from outside the two maps enters merged_entry, every edge
\* that left outer_map_exit leaves merged_exit, each with its other end, its
\* connectors and its payload, and every edge with no end at one of the four
\* map nodes is in the graph as before.
C19_OuterEdgesRedirected ==
    mpc = "returned" =>
        /\ \A x \in SeqToSet(InEdges(moriginal, outer_map_entry)) :
              x.src \notin BoundaryNodes =>
                  EdgeCount(mgraph, [x EXCEPT !.dst = merged_entry]) =
                      EdgeCount(moriginal, x)
        /\ \A x \in SeqToSet(OutEdges(moriginal, outer_map_exit)) :
              EdgeCount(mgraph, [x EXCEPT !.src = merged_exit]) =
                  EdgeCount(moriginal, x)
        /\ \A x \in EdgeSet(moriginal) \cup EdgeSet(mgraph) :
              (x.src \notin BoundaryNodes \cup {merged_entry, merged_exit} /\
               x.dst \notin BoundaryNodes \cup {merged_entry, merged_exit}) =>
                  EdgeCount(mgraph, x) = EdgeCount(moriginal, x)

\* merge_maps has returned on a graph with two edges into outer_map_entry,
\* two edges out of outer_map_exit and an edge past the two maps.
C19_Witness ==
    /\ mpc = "returned"
    /\ InDegree(moriginal, outer_map_entry) >= 2
    /\ OutDegree(moriginal, outer_map_exit) >= 2
    /\ \E x \in EdgeSet(moriginal) : x.src = producer /\ x.dst = consumer

(***************************************************************************)
(* Properties of change_edge_dest and change_edge_src.                     *)
(***************************************************************************)
\* What the call makes of the edge x: its end at node_a becomes node_b, its
\* other end, its connectors and its payload stay.
MovedEdge(x) ==
    IF cfn = "dest" /\ x.dst = c_node_a THEN [x EXCEPT !.dst = c_node_b]
    ELSE IF cfn = "src" /\ x.src = c_node_a THEN [x EXCEPT !.src = c_node_b]
    ELSE x

AtNodeA(x) == IF cfn = "dest" THEN x.dst = c_node_a ELSE x.src = c_node_a

\* C21: change_edge_dest leaves every edge that does not end at node_a in
\* the graph as it was, and in the order it had, and removes no node; when
\* no edge ends at node_a the graph stays as it is and the loop body never
\* runs.  The same for change_edge_src and the edges that do not start at
\* node_a.
C21_OtherEdgesUntouched ==
    cpc # "idle" =>
        LET others == SelectSeq(c_entry.edges, LAMBDA x : ~AtNodeA(x))
        IN /\ \A x \in SeqToSet(others) :
                 EdgeCount(c_graph, x) >= EdgeCount(c_entry, x)
           /\ LET now == SelectSeq(c_graph.edges, LAMBDA x : ~AtNodeA(x))
              IN /\ Len(now) >= Len(others)
                 /\ others = SubSeq(now, 1, Len(others))
           /\ cpc = "done" =>
                 others = SubSeq(c_graph.edges, 1, Len(others))
           /\ c_graph.nodes = c_entry.nodes
           /\ others = c_entry.edges =>
                 /\ c_graph = c_entry
                 /\ cpc \in {"list", "remove", "done"}

\* change_edge_src has returned on a graph in which an edge left node_a and
\* two edges did not, one of them an edge into node_a.
C21_Witness ==
    /\ cpc = "done"
    /\ cfn = "src"
    /\ OutDegree(c_entry, c_node_a) >= 1
    /\ Len(c_entry.edges) - OutDegree(c_entry, c_node_a) >= 2
    /\ \E x \in EdgeSet(c_entry) : x.dst = c_node_a /\ x.src # c_node_a

\* The nodes marked visited and not yielded: the children the condition
\* was false for.
Rejected == visited \ SeqToSet(out)

\* The while loop is at a child that is not visited and whose predecessors
\* all are: the next step evaluates condition(parent, child).
ConditionEvaluated ==
    /\ condition.given
    /\ tpc = "while"
    /\ LET top == stack[Len(stack)]
           children == Neighbors(G, top.node)
       IN /\ top.pos <= Len(children)
          /\ children[top.pos] \notin visited
          /\ Predecessors(G, children[top.pos]) \subseteq visited

TopoParent == stack[Len(stack)].node

TopoChild == Neighbors(G, TopoParent)[stack[Len(stack)].pos]

\* C22: when condition(parent, child) is evaluated and is false, the step
\* marks the child visited, yields nothing and pushes nothing; a node so
\* marked is never on the stack and is never yielded later in the run,
\* through no parent and as no start node; and a child whose predecessors
\* are all marked visited, yielded or not, passes the predecessor gate: it
\* is yielded when the condition holds for it.
C22_RejectedChildPruned ==
    /\ [](condition.given =>
            \A i \in 1..Len(stack) : stack[i].node \notin Rejected)
    /\ [][ConditionEvaluated /\ ~Condition(TopoParent, TopoChild) =>
            /\ visited' = visited \cup {TopoChild}
            /\ out' = out
            /\ Len(stack') = Len(stack)
            /\ TopoChild \in Rejected']_vars
    /\ [][ConditionEvaluated /\ Condition(TopoParent, TopoChild) =>
            out' = Append(out, TopoChild)]_vars
    /\ [][condition.given /\ prev' = prev => Rejected \subseteq Rejected']_vars

\* A walk over the whole graph has ended; the condition was false for a
\* node r, which is a later start node and was not yielded, and a successor
\* of r was yielded through another parent.
C22_Witness ==
    /\ condition.given
    /\ tpc = "done"
    /\ ~sources.given
    /\ \E r \in Rejected :
          \E i, j \in 1..Len(out) :
             /\ i < j
             /\ out[i] < r
             /\ <<out[i], r>> \in condition.rejects
             /\ r \in Predecessors(G, out[j])
             /\ out[i] \in Predecessors(G, out[j])

RECURSIVE ChildOrder(_, _, _)
\* The nodes below the children kids[i], kids[i + 1], ... in depth-first
\* child order, d child-edges deep: each child, then what lies below it.
ChildOrder(kids, i, d) ==
    IF i > Len(kids) THEN <<>>
    ELSE <<kids[i]>>
         \o (IF d > 1 THEN ChildOrder(children_iter[kids[i]], 1, d - 1)
             ELSE <<>>)
         \o ChildOrder(kids, i + 1, d)

\* source, then the nodes within depth child-edges of it in depth-first
\* child order (a node reached by two paths stands twice).
SeenOrder ==
    <<source>> \o (IF depth = 0 THEN <<>>
                   ELSE ChildOrder(children_iter[source], 1, depth))

\* The first node of the sequence o whose value is the greatest of o.
FirstBest(o) ==
    LET best == CHOOSE i \in 1..Len(o) :
                    /\ \A j \in 1..Len(o) : val[o[j]] <= val[o[i]]
                    /\ \A j \in 1..(i - 1) : val[o[j]] < val[o[i]]
    IN o[best]

\* C23: depth_limited_search replaces its candidate only by a node of
\* strictly greater value, and returns, of the nodes within the depth that
\* attain the greatest value, the one met first in depth-first child order
\* (source if source attains it), with that value.
C23_FirstSeenWins ==
    /\ []((fn = "search" /\ spc = "done") =>
            /\ ret.node = FirstBest(SeenOrder)
            /\ ret.value = val[FirstBest(SeenOrder)])
    /\ [][(fn = "search" /\ spc = "loop" /\ candidate' # candidate) =>
            candidate'.value > candidate.value]_vars

\* The search returned after it met two nodes other than source that both
\* attain the greatest value, which source does not attain.
C23_Witness ==
    /\ fn = "search"
    /\ spc = "done"
    /\ val[source] < ret.value
    /\ \E i, j \in 1..Len(SeenOrder) :
          /\ i < j
          /\ SeenOrder[i] # SeenOrder[j]
          /\ val[SeenOrder[i]] = ret.value
          /\ val[SeenOrder[j]] = ret.value

\* C24: when merge_maps fails for want of a matching inner edge, the four
\* map nodes it was given are all still nodes of the graph it leaves
\* behind; they are nodes of the graph in every state before the clean-up.
C24_BoundaryNodesKeptOnError ==
    mpc \in {"entry_loop", "exit_loop", "cleanup", "error"} =>
        BoundaryNodes \subseteq NodeSet(mgraph)

\* merge_maps has failed in its second loop, at an edge inner_map_exit ->
\* outer_map_exit without a matching inner edge, after its first loop had
\* rewired an edge to merged_entry.
C24_Witness ==
    /\ mpc = "error"
    /\ ~UnmatchedEntryEdge(moriginal)
    /\ todo # <<>>
    /\ Head(todo).src = inner_map_exit
    /\ Head(todo).dst = outer_map_exit
    /\ \A y \in SeqToSet(inner_edges) :
          ~Paired(y.dst_conn, Head(todo).src_conn)
    /\ \E x \in EdgeSet(mgraph) : x.src = merged_entry
    /\ merged_entry \in NodeSet(mgraph)

RECURSIVE SeqSum(_)
SeqSum(s) == IF s = <<>> THEN 0 ELSE Head(s) + SeqSum(Tail(s))

\* What is left of the run, counted in steps: the children the frames of
\* the stack have not looked at yet, a pop for each frame, for each node
\* not visited its push with all its children, the start nodes left, and
\* the end of the generator.
TopoMeasure ==
    SeqSum([i \in 1..Len(stack) |->
               OutDegree(G, stack[i].node) - stack[i].pos + 1])
    + Len(stack)
    + SeqSum([i \in 1..Len(G.nodes) |->
                 IF G.nodes[i] \in visited THEN 0
                 ELSE OutDegree(G, G.nodes[i]) + 2])
    + (Len(StartNodes) - idx + 1)
    + (IF tpc = "done" THEN 0 ELSE 1)

\* One step of the run in progress: not the start of a second call.
RunStep == tpc # "idle" /\ prev' = prev

\* C25: dfs_topological_sort ends on every graph, with or without cycles,
\* and for every sources: while the generator has not ended it has a next
\* step (a frame to work on in the while loop, a start node or the end in
\* the for loop), and every step takes one or more off a count of the steps
\* left that is never below zero; a node is pushed only when it is not yet visited and
\* is marked with the push, and no mark is taken back, so that no node is
\* yielded twice and at most Len(G.nodes) nodes are yielded.
C25_Terminates ==
    /\ [](tpc # "idle" =>
            /\ TopoMeasure >= 0
            /\ Injective(out)
            /\ Len(out) <= Len(G.nodes)
            /\ Injective([i \in 1..Len(stack) |-> stack[i].node])
            /\ \A i \in 1..Len(stack) : stack[i].node \in visited)
    /\ [](/\ tpc = "while" => stack # <<>> /\ idx <= Len(StartNodes)
          /\ tpc = "for" => stack = <<>> /\ idx >= 1)
    /\ [][RunStep => TopoMeasure' < TopoMeasure]_vars
    /\ [][RunStep => visited \subseteq visited']_vars
    /\ [][RunStep /\ Len(stack') > Len(stack) =>
            /\ stack'[Len(stack')].node \notin visited
            /\ stack'[Len(stack')].node \in visited'
            /\ out' = Append(out, stack'[Len(stack')].node)]_vars

\* The generator has ended on a graph with a cycle through all its nodes,
\* called with a list of two sources of which the second lies on the cycle
\* behind the first.
C25_Witness ==
    /\ tpc = "done"
    /\ sources.given
    /\ Len(sources.list) = 2
    /\ sources.list[1] # sources.list[2]
    /\ ~Acyclic(G)
    /\ \A n \in NodeSet(G) :
          NodeSet(G) \subseteq ReachableIn(G, {n}, Len(G.nodes))
    /\ Len(out) >= 2

=============================================================================
